---- MODULE Spec2Model ----
(***************************************************************************)
(* Model of src/config/dev.ts of purpurina-ide.                            *)
(*                                                                         *)
(* The file holds two pieces of behaviour:                                 *)
(*   - the process orchestrator main(): the process-wide guards and the    *)
(*     development environment descriptor (lines 13-44), followed by the   *)
(*     orchestration flow that main() keeps as a comment block (lines      *)
(*     123-257): main compile, renderer dev server, spawn of Electron and  *)
(*     the close / error / SIGTERM handlers.  The flow is modelled as it   *)
(*     is written there.  Specification Spec (FairSpec with fairness);     *)
(*   - the CreateProjectPage component (lines 280-453).  Specification     *)
(*     FormSpec.                                                           *)
(***************************************************************************)
EXTENDS Integers, Sequences, FiniteSets, TLC

VARIABLES
  \* ---- the orchestrator's process
  proc,                  \* "running" | "exited"
  exitCode,              \* NoExit while running, then the exit status
  guards,                \* the unhandledRejection / uncaughtException handlers are installed
  env,                   \* the DevelopmentEnvironment descriptor (renderer part)
  \* ---- orchestration flow (comment block of main)
  pc,                    \* main's position: "start" | "awaitMain" | "awaitRenderer" | "waitChild" | "returned"
  mainPromise,           \* "none" | "pending" | "resolved" | "rejected"
  stats,                 \* webpack.Stats of the main compile: [hasErrors, hasWarnings]
  rendererServerPromise, \* "none" | "pending" | "resolved" | "rejected"
  server,                \* the HTTP listener: "none" | "open" | "closing" | "closed"
  serverCloseCalls,      \* number of server.close(...) calls
  devMiddlewareCloses,   \* number of devMiddleware.close() calls
  closeCallbacks,        \* callbacks given to server.close, waiting for the 'close' event
  electronProcess,       \* "none" | "failed" | "running" | "errored" | "closed"
  spawnCount,            \* number of spawn(...) calls
  childEnv,              \* the env given to spawn
  topPromise,            \* the promise main returns: "none" | "pending" | "resolved" | "rejected"
  sigtermHandler,        \* process.on('SIGTERM', ...) is registered
  sigterms,              \* SIGTERMs delivered to the handler
  closeCode,             \* the code of the child's 'close' event
  \* ---- CreateProjectPage
  userInfo,              \* getUserInfo(): [homeDir, userName]
  projectName,           \* this.projectName
  location,              \* this.location
  author,                \* this.author
  creatingProject,       \* this.creatingProject
  nameError,             \* the error shown by nameInput (setError)
  locationError,         \* the error shown by locationInput (setError)
  cpc,                   \* createProject's position: "idle" | "sending" (inside ipcRenderer.send)
  payload,               \* the ICreateProject built by the createProject call in progress
  sentCount,             \* number of 'createProject' messages sent
  lastSent,              \* the payload of the last 'createProject' message
  lastInput              \* the last input event as onInput handled it

procVars == <<proc, exitCode, guards, env>>
orchVars == <<pc, mainPromise, stats, rendererServerPromise, server, serverCloseCalls,
              devMiddlewareCloses, closeCallbacks, electronProcess, spawnCount,
              childEnv, topPromise, sigtermHandler, sigterms, closeCode>>
formVars == <<userInfo, projectName, location, author, creatingProject, nameError,
              locationError, cpc, payload, sentCount, lastSent, lastInput>>
vars == <<procVars, orchVars, formVars>>

\* ---------------------------------------------------------------- bounds
MaxSigterm == 3
MaxSent == 2

\* ------------------------------------------------------ program constants
\* exitCode and closeCode before there is one
NoExit == -1
NoStats == [hasErrors |-> FALSE, hasWarnings |-> FALSE]
NoEnv == [host |-> "", port |-> 0]
NoChildEnv == [ELECTRON_WEBPACK_WDS_PORT |-> "", ELECTRON_WEBPACK_WDS_HOST |-> "",
               DEVELOPMENT |-> ""]

\* const PORT = 3000
PORT == 3000

\* env.renderer of the DevelopmentEnvironment built in main()
DevelopmentEnvironment == [host |-> "localhost", port |-> 3000]

\* ------------------------------------------------------------ conversions
Digit(d) == <<"0", "1", "2", "3", "4", "5", "6", "7", "8", "9">>[d + 1]

RECURSIVE ToString10(_)
\* Number.prototype.toString(10) of a non-negative integer
ToString10(n) == IF n < 10 THEN Digit(n) ELSE ToString10(n \div 10) \o Digit(n % 10)

\* JSON.stringify of a boolean
JsonStringify(b) == IF b THEN "true" ELSE "false"

\* ------------------------------------------------------------- the guards
\* Mutant of unhandledRejection: the handler logs and does not exit.
unhandledRejectionLogOnly == [proc |-> "running", exitCode |-> NoExit]

\* process.on("unhandledRejection", ...): log, process.exit(1)
unhandledRejection == [proc |-> "exited", exitCode |-> 1]

\* process.on("uncaughtException", ...): log, process.exit(1)
uncaughtException == [proc |-> "exited", exitCode |-> 1]

\* process.exit(1) after "Main error"
mainErrorExit == [proc |-> "exited", exitCode |-> 1]

Exit(how) ==
  /\ proc' = how.proc
  /\ exitCode' = how.exitCode

\* ------------------------------------------------------ CreateProjectPage
\* Strings of the form are sequences of characters.
DefaultProjectName ==
  <<"N", "e", "w", " ", "P", "r", "o", "j", "e", "c", "t", " ", "1">>

\* What remote.getGlobal('userInfo') answers.
UserInfos == {[homeDir |-> <<"/", "h">>, userName |-> <<"u">>],
              [homeDir |-> <<"C", ":", "\\">>, userName |-> <<>>]}

\* const DEFAULT_LOCATION = userInfo.homeDir
DEFAULT_LOCATION == userInfo.homeDir

\* const DEFAULT_AUTHOR = userInfo.userName
DEFAULT_AUTHOR == userInfo.userName

\* The values typed into an input.
TestValues == {<<>>, <<"a">>, <<"/", "a">>, <<"a", "*">>}

\* The ids of the elements an input event can come from.
InputIds == {"project-name", "location", "project-author", "other"}

Letters == {"a", "e", "c", "h", "j", "o", "r", "t", "u", "w", "N", "P"}
Digits == {"0", "1", "2", "3", "4", "5", "6", "7", "8", "9"}
NameChars == Letters \cup Digits \cup {" ", "-", "_"}
Separators == {"/", "\\"}
Reserved == {"*", "?", "<", ">", "|", ":"}

\* pathValidation.folderName: empty on a non-empty name of letters, digits,
\* space, hyphen and underscore; an error on a separator or reserved character.
folderName(v) ==
  IF Len(v) > 0 /\ \A i \in 1..Len(v) : v[i] \in NameChars
    THEN "" ELSE "Invalid folder name"

\* pathValidation.path: empty on a non-empty path without reserved characters.
path(v) ==
  IF Len(v) > 0 /\ \A i \in 1..Len(v) : v[i] \in NameChars \cup Separators
    THEN "" ELSE "Invalid path"

NoPayload == [projectName |-> <<>>, location |-> <<>>, author |-> <<>>]
NoInput == [id |-> "none", validator |-> "none", error |-> "", changed |-> FALSE]

\* ------------------------------------------------------------------ Init
OrchIdle ==
  /\ proc = "running"
  /\ exitCode = NoExit
  /\ guards = FALSE
  /\ env = NoEnv
  /\ pc = "start"
  /\ mainPromise = "none"
  /\ stats = NoStats
  /\ rendererServerPromise = "none"
  /\ server = "none"
  /\ serverCloseCalls = 0
  /\ devMiddlewareCloses = 0
  /\ closeCallbacks = <<>>
  /\ electronProcess = "none"
  /\ spawnCount = 0
  /\ childEnv = NoChildEnv
  /\ topPromise = "none"
  /\ sigtermHandler = FALSE
  /\ sigterms = 0
  /\ closeCode = NoExit

\* The page after its constructor.
FormConstructed ==
  /\ userInfo \in UserInfos
  /\ projectName = DefaultProjectName
  /\ location = DEFAULT_LOCATION
  /\ author = DEFAULT_AUTHOR
  /\ creatingProject = FALSE
  /\ nameError = ""
  /\ locationError = ""
  /\ cpc = "idle"
  /\ payload = NoPayload
  /\ sentCount = 0
  /\ lastSent = NoPayload
  /\ lastInput = NoInput

Init == OrchIdle /\ FormConstructed

\* ------------------------------------------------- main, up to first await
\* main() from its first line to `await mainPromise`: the guards, the
\* descriptor, the main compile and the renderer server are all started.
MainStart ==
  /\ proc = "running"
  /\ UNCHANGED formVars
  /\ pc = "start"
  /\ guards' = TRUE
  /\ env' = DevelopmentEnvironment
  /\ mainPromise' = "pending"
  /\ rendererServerPromise' = "pending"
  /\ pc' = "awaitMain"
  /\ UNCHANGED <<proc, exitCode, stats, server, serverCloseCalls, devMiddlewareCloses,
                 closeCallbacks, electronProcess, spawnCount, childEnv, topPromise,
                 sigtermHandler, sigterms, closeCode>>

\* Mutant of HasErrors: the errors of the compile are not looked at.
HasErrorsIgnored(s) == FALSE

\* stats.hasErrors()
HasErrors(s) == s.hasErrors

\* Mutant of Awaited: main goes on without the renderer server's result.
AwaitedUnsettled(p) == TRUE

\* `await rendererServerPromise` lets main go on once the promise is resolved
Awaited(p) == p = "resolved"

\* the env object given to spawn
SpawnEnv(port) ==
  [ELECTRON_WEBPACK_WDS_PORT |-> ToString10(port),
   ELECTRON_WEBPACK_WDS_HOST |-> "locahost",
   DEVELOPMENT |-> JsonStringify(TRUE)]

\* The executor of the promise main returns: spawn Electron and register the
\* close, error and SIGTERM handlers.  outcome is what the spawn turns out to
\* be: "running", or "failed" (the child's 'error' event is then emitted on
\* the next tick, before any other event).
SpawnElectron(outcome) ==
  /\ spawnCount' = spawnCount + 1
  /\ childEnv' = SpawnEnv(PORT)
  /\ electronProcess' = outcome
  /\ topPromise' = "pending"
  /\ sigtermHandler' = TRUE
  /\ pc' = "waitChild"

\* webpack(config.main, callback) calls back; main resumes after
\* `await mainPromise` and runs to its next suspension.
MainCompileDone(err, s) ==
  /\ proc = "running"
  /\ UNCHANGED formVars
  /\ mainPromise = "pending"
  /\ IF err
       THEN /\ mainPromise' = "rejected"
            /\ Exit(unhandledRejection)
            /\ UNCHANGED <<stats, pc, electronProcess, spawnCount, childEnv, topPromise,
                           sigtermHandler>>
       ELSE /\ mainPromise' = "resolved"
            /\ stats' = s
            /\ IF HasErrors(s)
                 THEN /\ Exit(mainErrorExit)
                      /\ UNCHANGED <<pc, electronProcess, spawnCount, childEnv, topPromise,
                                     sigtermHandler>>
                 ELSE /\ UNCHANGED <<proc, exitCode>>
                      /\ IF Awaited(rendererServerPromise)
                           THEN \E outcome \in {"running", "failed"} : SpawnElectron(outcome)
                           ELSE /\ pc' = "awaitRenderer"
                                /\ UNCHANGED <<electronProcess, spawnCount, childEnv,
                                               topPromise, sigtermHandler>>
  /\ UNCHANGED <<guards, env, rendererServerPromise, server, serverCloseCalls,
                 devMiddlewareCloses, closeCallbacks, sigterms, closeCode>>

\* expressApp.listen(PORT, 'localhost', callback): the listener binds, or the
\* bind fails (reported to the callback, or as the server's 'error' event).
RendererListenDone(result) ==
  /\ proc = "running"
  /\ UNCHANGED formVars
  /\ rendererServerPromise = "pending"
  /\ IF result = "bound"
       THEN /\ rendererServerPromise' = "resolved"
            /\ server' = "open"
            /\ UNCHANGED <<proc, exitCode>>
            /\ IF pc = "awaitRenderer"
                 THEN \E outcome \in {"running", "failed"} : SpawnElectron(outcome)
                 ELSE UNCHANGED <<pc, electronProcess, spawnCount, childEnv, topPromise,
                                  sigtermHandler>>
       ELSE /\ rendererServerPromise' = "rejected"
            /\ Exit(IF result = "callbackError" THEN unhandledRejection
                                                ELSE uncaughtException)
            /\ UNCHANGED <<server, pc, electronProcess, spawnCount, childEnv, topPromise,
                           sigtermHandler>>
  /\ UNCHANGED <<guards, env, mainPromise, stats, serverCloseCalls, devMiddlewareCloses,
                 closeCallbacks, sigterms, closeCode>>

\* server.close(cb): the first call stops the listener; every call leaves its
\* callback waiting for the server's 'close' event.
ServerClose(cb) ==
  /\ serverCloseCalls' = serverCloseCalls + 1
  /\ server' = IF server = "open" THEN "closing" ELSE server
  /\ closeCallbacks' = Append(closeCallbacks, cb)

\* resolve() of the promise main returns
Resolve(p) == IF p = "pending" THEN "resolved" ELSE p

\* reject(err) of the promise main returns
Reject(p) == IF p = "pending" THEN "rejected" ELSE p

\* electronProcess.on("close", ...)
ChildClose(code) ==
  /\ proc = "running"
  /\ UNCHANGED formVars
  /\ electronProcess = "running"
  /\ electronProcess' = "closed"
  /\ closeCode' = code
  /\ devMiddlewareCloses' = devMiddlewareCloses + 1
  /\ ServerClose("logOnly")
  /\ topPromise' = Resolve(topPromise)
  /\ pc' = "returned"
  /\ UNCHANGED <<procVars, mainPromise, stats, rendererServerPromise, spawnCount,
                 childEnv, sigtermHandler, sigterms>>

\* electronProcess.on("error", ...): reject(err); the promise of main()
\* rejects and nothing but the guard handles it.
ChildError ==
  /\ proc = "running"
  /\ UNCHANGED formVars
  /\ electronProcess = "failed"
  /\ electronProcess' = "errored"
  /\ topPromise' = Reject(topPromise)
  /\ IF topPromise' = "rejected"
       THEN Exit(unhandledRejection) /\ pc' = "returned"
       ELSE UNCHANGED <<proc, exitCode, pc>>
  /\ UNCHANGED <<guards, env, mainPromise, stats, rendererServerPromise, server,
                 serverCloseCalls, devMiddlewareCloses, closeCallbacks, spawnCount,
                 childEnv, sigtermHandler, sigterms, closeCode>>

\* process.on('SIGTERM', ...)
Sigterm ==
  /\ proc = "running"
  /\ UNCHANGED formVars
  /\ sigtermHandler
  /\ electronProcess # "failed"
  /\ sigterms < MaxSigterm
  /\ sigterms' = sigterms + 1
  /\ devMiddlewareCloses' = devMiddlewareCloses + 1
  /\ ServerClose("resolve")
  /\ UNCHANGED <<procVars, pc, mainPromise, stats, rendererServerPromise,
                 electronProcess, spawnCount, childEnv, topPromise, sigtermHandler,
                 closeCode>>

\* Mutant of SigtermCloseCallback: the callback logs and does not resolve.
SigtermCloseCallbackLogOnly(p) == p

\* the callback SIGTERM gave to server.close: log, resolve()
SigtermCloseCallback(p) == Resolve(p)

RECURSIVE RunCloseCallbacks(_, _)
\* the server's 'close' listeners run in the order they were added
RunCloseCallbacks(cbs, p) ==
  IF cbs = <<>> THEN p
  ELSE RunCloseCallbacks(Tail(cbs),
                         IF Head(cbs) = "resolve" THEN SigtermCloseCallback(p) ELSE p)

\* The server emits 'close' (its connections have ended): the waiting
\* callbacks of server.close run.
ServerClosed ==
  /\ proc = "running"
  /\ UNCHANGED formVars
  /\ server \in {"closing", "closed"}
  /\ closeCallbacks # <<>>
  /\ server' = "closed"
  /\ closeCallbacks' = <<>>
  /\ topPromise' = RunCloseCallbacks(closeCallbacks, topPromise)
  /\ pc' = IF topPromise' = "resolved" THEN "returned" ELSE pc
  /\ UNCHANGED <<procVars, mainPromise, stats, rendererServerPromise, serverCloseCalls,
                 devMiddlewareCloses, electronProcess, spawnCount, childEnv,
                 sigtermHandler, sigterms, closeCode>>

\* Nothing is left to wait for: node leaves with status 0.
ImplicitExit ==
  /\ proc = "running"
  /\ UNCHANGED formVars
  /\ electronProcess = "closed"
  /\ server = "closed"
  /\ closeCallbacks = <<>>
  /\ proc' = "exited"
  /\ exitCode' = 0
  /\ UNCHANGED <<guards, env, orchVars>>

Next ==
  \/ MainStart
  \/ \E err \in BOOLEAN, s \in [hasErrors : BOOLEAN, hasWarnings : BOOLEAN] :
       MainCompileDone(err, s)
  \/ \E result \in {"bound", "callbackError", "errorEvent"} : RendererListenDone(result)
  \/ \E code \in {0, 1} : ChildClose(code)
  \/ ChildError
  \/ Sigterm
  \/ ServerClosed
  \/ ImplicitExit

Spec == Init /\ [][Next]_vars

FairSpec == Spec /\ WF_vars(ServerClosed)

\* ------------------------------------------------------ CreateProjectPage
Committed == [projectName |-> projectName, location |-> location, author |-> author]

\* Mutant of Commit: the value is assigned whatever the validation said.
CommitAlways(error, old, new) == new

\* if (error.length === 0) { this.<field> = testValue; }
Commit(error, old, new) == IF error = "" THEN new ELSE old

\* What onInput did with the event: the validator it called, the error the
\* validator returned, and whether a committed value changed.
Handled(id, validator, error) ==
  [id |-> id, validator |-> validator, error |-> error,
   changed |-> <<projectName', location', author'>> # <<projectName, location, author>>]

\* onInput, for an input event from the element id holding testValue
onInput(id, testValue) ==
  /\ cpc = "idle"
  /\ UNCHANGED <<procVars, orchVars>>
  /\ UNCHANGED <<userInfo, creatingProject, cpc, payload, sentCount, lastSent>>
  /\ CASE id = "project-name" ->
            LET error == folderName(testValue) IN
              /\ nameError' = error
              /\ projectName' = Commit(error, projectName, testValue)
              /\ UNCHANGED <<location, author, locationError>>
              /\ lastInput' = Handled(id, "folderName", error)
       [] id = "location" ->
            LET error == path(testValue) IN
              /\ locationError' = error
              /\ location' = Commit(error, location, testValue)
              /\ UNCHANGED <<projectName, author, nameError>>
              /\ lastInput' = Handled(id, "path", error)
       [] id = "project-author" ->
            /\ author' = testValue
            /\ UNCHANGED <<projectName, location, nameError, locationError>>
            /\ lastInput' = Handled(id, "none", "")
       [] OTHER ->
            /\ UNCHANGED <<projectName, location, author, nameError, locationError>>
            /\ lastInput' = Handled(id, "none", "")

\* reset(): the defaults again; nameInput and locationInput are reset and
\* show no error.
reset ==
  /\ cpc = "idle"
  /\ UNCHANGED <<procVars, orchVars>>
  /\ projectName' = DefaultProjectName
  /\ location' = DEFAULT_LOCATION
  /\ author' = DEFAULT_AUTHOR
  /\ nameError' = ""
  /\ locationError' = ""
  /\ UNCHANGED <<userInfo, creatingProject, cpc, payload, sentCount, lastSent, lastInput>>

\* Mutant of GuardPasses: the in-flight flag is not looked at.
GuardIgnored(flag) == TRUE

\* if (this.creatingProject === true) { return; }
GuardPasses(flag) == flag # TRUE

\* createProject, from its call to the call of ipcRenderer.send
createProjectBegin ==
  /\ cpc = "idle"
  /\ sentCount < MaxSent
  /\ UNCHANGED <<procVars, orchVars>>
  /\ IF GuardPasses(creatingProject)
       THEN /\ creatingProject' = TRUE
            /\ payload' = Committed
            /\ cpc' = "sending"
            /\ UNCHANGED <<userInfo, projectName, location, author, nameError,
                           locationError, sentCount, lastSent, lastInput>>
       ELSE UNCHANGED formVars

\* ipcRenderer.send('createProject', createProject) and the rest of
\* createProject
createProjectSend ==
  /\ cpc = "sending"
  /\ UNCHANGED <<procVars, orchVars>>
  /\ sentCount' = sentCount + 1
  /\ lastSent' = payload
  /\ creatingProject' = FALSE
  /\ payload' = NoPayload
  /\ cpc' = "idle"
  /\ UNCHANGED <<userInfo, projectName, location, author, nameError, locationError,
                 lastInput>>

\* A second call of createProject made while the first is inside
\* ipcRenderer.send; it runs as a whole before the first goes on.
createProjectReentrant ==
  /\ cpc = "sending"
  /\ UNCHANGED <<procVars, orchVars>>
  /\ IF GuardPasses(creatingProject)
       THEN /\ sentCount' = sentCount + 1
            /\ lastSent' = Committed
            /\ creatingProject' = FALSE
            /\ UNCHANGED <<userInfo, projectName, location, author, nameError,
                           locationError, cpc, payload, lastInput>>
       ELSE UNCHANGED formVars

FormNext ==
  \/ \E id \in InputIds, testValue \in TestValues : onInput(id, testValue)
  \/ reset
  \/ createProjectBegin
  \/ createProjectSend
  \/ createProjectReentrant

FormSpec == Init /\ [][FormNext]_vars

\* ------------------------------------------------------------------ claims

C5_InvalidLocationBlocksSubmit ==
  [][ /\ (locationError' # "" => location' = location)
      /\ (locationError # "" => sentCount' = sentCount) ]_vars

ValidOrDefault ==
  /\ projectName = DefaultProjectName \/ folderName(projectName) = ""
  /\ location = DEFAULT_LOCATION \/ path(location) = ""

C10_SubmitGuardedByFlag ==
  /\ [](/\ cpc = "idle" => creatingProject = FALSE
        /\ cpc = "sending" => (creatingProject = TRUE /\ payload = Committed))
  /\ [][ /\ (creatingProject /\ creatingProject') => UNCHANGED formVars
         /\ (~creatingProject /\ creatingProject') => sentCount' = sentCount
         /\ sentCount' # sentCount =>
              /\ creatingProject /\ ~creatingProject'
              /\ sentCount' = sentCount + 1
              /\ lastSent' = Committed ]_vars

\* C10, witness: one message carrying a typed author was sent, and a further
\* call is inside ipcRenderer.send with the flag set.
C10_Witness ==
  /\ sentCount = 1
  /\ lastSent.author # DEFAULT_AUTHOR
  /\ lastSent = Committed
  /\ cpc = "sending"
  /\ creatingProject = TRUE
====
